---- MODULE Spec2Model ----
(***************************************************************************)
(* Model of src/src/lib.rs: HeaderSlice / HeaderStr, a {length, Header,    *)
(* [T]} block built in one allocation.                                     *)
(*                                                                         *)
(* One construction call is followed from its entry to its return (or its  *)
(* unwinding); afterwards the caller may dispose of a HeaderSliceInitError *)
(* or recover a handle from its type-erased address.                       *)
(*                                                                         *)
(* Integers are those of a 16-bit target (usize is two bytes), so that     *)
(* the overflow checks of core::alloc::Layout are reachable.               *)
(*                                                                         *)
(* A payload slot holds an item (its position in the source and its        *)
(* value) or nothing.  Destroying a slot that holds nothing is undefined   *)
(* behaviour: it may do nothing, trap, or destroy an item a second time.   *)
(* Zero-sized element types appear in the layout calls only: all their     *)
(* slots share one address.                                                *)
(***************************************************************************)
EXTENDS Integers, Sequences, FiniteSets, TLC

(***************************************************************************)
(* Bounds of the model.                                                    *)
(***************************************************************************)
\* longest source (iterator / slice) whose items are materialised
MaxLen == 3
\* longest text, in chars, besides the sample text
MaxText == 2
\* largest size of a type handed to layout_for
MaxTypeSize == 4
\* how far below each overflow threshold the element counts are drawn
MaxSlack == 5

(***************************************************************************)
(* The target's machine word.                                              *)
(***************************************************************************)
UsizeBytes == 2
UsizeBits == 8 * UsizeBytes
UsizeMax == 2 ^ UsizeBits - 1
IsizeMax == 2 ^ (UsizeBits - 1) - 1

Max(a, b) == IF a >= b THEN a ELSE b
RoundUp(x, a) == ((x + a - 1) \div a) * a

(***************************************************************************)
(* Types: a type is its size and alignment.                                *)
(***************************************************************************)
UsizeTy == [size |-> UsizeBytes, align |-> UsizeBytes]
U8Ty == [size |-> 1, align |-> 1]
Aligns == {1, 2, 4}
LayoutTypes == {ty \in [size : 0 .. MaxTypeSize, align : Aligns] : ty.size % ty.align = 0}
ElemTypes == {U8Ty, [size |-> 4, align |-> 4]}
HeaderTypes == {[size |-> 0, align |-> 1], [size |-> 4, align |-> 4]}

(***************************************************************************)
(* core::alloc::Layout, as lib.rs uses it.                                 *)
(***************************************************************************)
LayoutErr == [ok |-> FALSE, size |-> 0, align |-> 0, offset |-> 0]
MkLayout(size, align, offset) == [ok |-> TRUE, size |-> size, align |-> align, offset |-> offset]

\* Layout::from_size_align: the size, rounded up to the alignment, fits isize
from_size_align(size, align, offset) ==
    IF size > IsizeMax - (align - 1) THEN LayoutErr ELSE MkLayout(size, align, offset)

\* Layout::new::<X>()
Layout_new(ty) == MkLayout(ty.size, ty.align, 0)

\* Layout::array::<X>(len)
Layout_array(ty, len) ==
    IF ty.size * len > UsizeMax THEN LayoutErr
    ELSE from_size_align(ty.size * len, ty.align, 0)

\* Layout::extend: (the combined layout, the offset of next in it)
Layout_extend(self, next) ==
    LET new_align == Max(self.align, next.align)
        pad == RoundUp(self.size, next.align) - self.size
        offset == self.size + pad
        new_size == offset + next.size
    IN  IF offset > UsizeMax \/ new_size > UsizeMax THEN LayoutErr
        ELSE from_size_align(new_size, new_align, offset)

\* Layout::pad_to_align
Layout_pad_to_align(self) == MkLayout(RoundUp(self.size, self.align), self.align, 0)

\* layout_for without its final pad_to_align
layout_for_unpadded(T, Header, len) ==
    LET length == Layout_new(UsizeTy)
        header == Layout_new(Header)
        values == Layout_array(T, len)
    IN  IF ~values.ok THEN LayoutErr
        ELSE LET part1 == Layout_extend(length, header)
             IN  IF ~part1.ok THEN LayoutErr
                 ELSE LET part2 == Layout_extend(part1, values)
                      IN  IF ~part2.ok THEN LayoutErr
                          ELSE MkLayout(part2.size, part2.align, 0)

\* HeaderSlice::layout_for
layout_for(T, Header, len) ==
    LET length == Layout_new(UsizeTy)
        header == Layout_new(Header)
        values == Layout_array(T, len)
    IN  IF ~values.ok THEN LayoutErr
        ELSE LET part1 == Layout_extend(length, header)
             IN  IF ~part1.ok THEN LayoutErr
                 ELSE LET part2 == Layout_extend(part1, values)
                      IN  IF ~part2.ok THEN LayoutErr
                          ELSE Layout_pad_to_align(part2)

\* HeaderStr::layout_for
HeaderStr_layout_for(Header, len) ==
    LET length == Layout_new(UsizeTy)
        header == Layout_new(Header)
        values == Layout_array(U8Ty, len)
    IN  IF ~values.ok THEN LayoutErr
        ELSE LET part1 == Layout_extend(length, header)
             IN  IF ~part1.ok THEN LayoutErr
                 ELSE LET part2 == Layout_extend(part1, values)
                      IN  IF ~part2.ok THEN LayoutErr
                          ELSE Layout_pad_to_align(part2)

(***************************************************************************)
(* Values.                                                                 *)
(***************************************************************************)
Headers == {7, 8}
Values == {10, 20}
Addrs == {16, 32}
NULL == 0
\* 'h', U+00E9, U+20AC: one, two and three bytes in UTF-8
Chars == {104, 233, 8364}
Hello == <<104, 233, 108, 108, 111>>

SeqsUpTo(S, n) == UNION {[1 .. k -> S] : k \in 0 .. n}
Sources == SeqsUpTo(Values, MaxLen)
Texts == SeqsUpTo(Chars, MaxText) \cup {Hello}

\* element counts at and just below the thresholds where a layout overflows
HugeLens ==
    {UsizeMax} \cup
    {l \in {(IsizeMax + 1) \div k - d : k \in {1, 2, 4}, d \in 0 .. MaxSlack} : l > MaxLen}

\* the UTF-8 encoding of one char
utf8_char(c) ==
    IF c < 128 THEN <<c>>
    ELSE IF c < 2048 THEN <<192 + (c \div 64), 128 + (c % 64)>>
    ELSE <<224 + (c \div 4096), 128 + ((c \div 64) % 64), 128 + (c % 64)>>

\* str::as_bytes: a str is the UTF-8 encoding of its chars
RECURSIVE as_bytes(_)
as_bytes(s) == IF s = <<>> THEN <<>> ELSE utf8_char(Head(s)) \o as_bytes(Tail(s))

(***************************************************************************)
(* State.                                                                  *)
(***************************************************************************)
VARIABLES
    pc,          \* where the call stands
    call,        \* the entry point and its arguments
    mem,         \* the block the handle is built in
    writer,      \* the SliceWriter of new_into
    taken,       \* items taken from the source so far
    dropCount,   \* how often the i-th item taken was destroyed
    uninitDrops, \* destructions of a slot that never received an item
    allocCalls,  \* requests made to the global allocator
    heap,        \* blocks obtained from the allocator and not given back
    result,      \* what the call returned
    recovered    \* the handle unerase rebuilt

vars == <<pc, call, mem, writer, taken, dropCount, uninitDrops, allocCalls, heap, result, recovered>>

Uninit == -1
NoItem == [id |-> 0, val |-> 0]
Item(i, v) == [id |-> i, val |-> v]
ItemIds == 1 .. (MaxLen + 1)

Min(a, b) == IF a <= b THEN a ELSE b
NoMem ==
    [live |-> FALSE, addr |-> NULL, cap |-> 0, length |-> Uninit, header |-> Uninit, slots |-> <<>>]
\* the longest payload a source of the model fills: MaxLen items, or the bytes of
\* a text
SlotsKept == Max(Max(MaxLen, 3 * MaxText), Len(as_bytes(Hello)))
\* a writable block that fits layout_for(n), nothing in it initialised; of its n
\* payload slots (cap) those a source of the model can reach are kept
FreshMem(a, n) ==
    [live |-> TRUE, addr |-> a, cap |-> n, length |-> Uninit, header |-> Uninit,
     slots |-> [i \in 1 .. Min(n, SlotsKept) |-> NoItem]]

NoWriter == [armed |-> FALSE, start |-> 0, ptr |-> 0, len |-> 0]
NoHandle == [addr |-> NULL, len |-> 0, kind |-> "none"]
NoCall ==
    [op |-> "none", header |-> 0, T |-> U8Ty, H |-> U8Ty, n |-> 0, items |-> <<>>,
     text |-> <<>>, panicAt |-> 0]
NoResult ==
    [tag |-> "None", handle |-> NoHandle, header |-> Uninit, layout |-> LayoutErr,
     data_ptr |-> 0, length |-> 0, expected_length |-> 0]

Init ==
    /\ pc = "idle"
    /\ call = NoCall
    /\ mem = NoMem
    /\ writer = NoWriter
    /\ taken = 0
    /\ dropCount = [i \in ItemIds |-> 0]
    /\ uninitDrops = 0
    /\ allocCalls = 0
    /\ heap = {}
    /\ result = NoResult
    /\ recovered = NoHandle

(***************************************************************************)
(* Helpers of lib.rs.                                                      *)
(***************************************************************************)
\* HeaderSlice::slice_head: the payload's first slot (slots count from it)
slice_head == 0

\* SliceWriter::new
SliceWriter_new(ptr) == [armed |-> TRUE, start |-> ptr, ptr |-> ptr, len |-> 0]

\* SliceWriter::write: self.ptr.write(value); self.len += 1
SliceWriter_write(self, slots, value) ==
    [writer |-> [self EXCEPT !.len = @ + 1],
     slots |-> [slots EXCEPT ![self.ptr + 1] = value]]

\* the slots of slice_from_raw_parts_mut(start, len)
SliceRange(start, len) == (start + 1) .. (start + len)

\* of those, the ones that never received an item
UninitIn(slots, start, len) == Cardinality({j \in SliceRange(start, len) : slots[j].id = 0})

\* What destroying a slot that holds no item may do: nothing (0), trap (Trap), or
\* destroy again an item whose bits the slot happens to hold
Trap == -2
Garbage(slots, start, len) ==
    IF UninitIn(slots, start, len) = 0 THEN {0} ELSE {0, Trap} \cup (1 .. taken)

\* slice_from_raw_parts_mut(start, len).drop_in_place(): the destructions counted
slice_drop_in_place(dc, slots, start, len, g) ==
    [i \in ItemIds |->
        dc[i] + Cardinality({j \in SliceRange(start, len) : slots[j].id = i})
              + (IF g = i THEN UninitIn(slots, start, len) ELSE 0)]

Traps(slots, start, len, g) == g = Trap /\ UninitIn(slots, start, len) > 0

\* alloc: a is what the global allocator answers
alloc(T, Header, len, a) ==
    LET layout == layout_for(T, Header, len)
    IN  IF ~layout.ok THEN [tag |-> "LayoutTooLarge", ptr |-> NULL, layout |-> LayoutErr, asked |-> FALSE]
        ELSE IF a = NULL THEN [tag |-> "AllocError", ptr |-> NULL, layout |-> layout, asked |-> TRUE]
        ELSE [tag |-> "Ok", ptr |-> a, layout |-> layout, asked |-> TRUE]

\* with_header with the arms of LayoutTooLarge and NotEnoughItems exchanged
with_header_swapped(self, header) ==
    [NoResult EXCEPT !.tag = IF self.tag = "LayoutTooLarge" THEN "NotEnoughItems"
                              ELSE IF self.tag = "NotEnoughItems" THEN "LayoutTooLarge"
                              ELSE self.tag,
                     !.header = header, !.layout = self.layout]

\* TryNewError::with_header
with_header(self, header) ==
    [NoResult EXCEPT !.tag = self.tag, !.header = header, !.layout = self.layout]

OkResult(handle) == [NoResult EXCEPT !.tag = "Ok", !.handle = handle]

\* new_into that finalises the handle without writing the length word
new_into_result_no_length(w, m, c) ==
    LET written_len == w.len
    IN  IF written_len = c.n
        THEN [mem |-> [m EXCEPT !.header = c.header],
              result |-> OkResult([addr |-> m.addr, len |-> c.n, kind |-> "slice"])]
        ELSE [mem |-> m,
              result |-> [NoResult EXCEPT !.tag = "InitError", !.header = c.header,
                                          !.data_ptr = slice_head, !.length = written_len,
                                          !.expected_length = c.n]]

\* HeaderSlice::new_into after its loop: the writer is forgotten, then the
\* handle is finalised or the error packaged
new_into_result(w, m, c) ==
    LET written_len == w.len
    IN  IF written_len = c.n
        THEN [mem |-> [m EXCEPT !.length = c.n, !.header = c.header],
              result |-> OkResult([addr |-> m.addr, len |-> c.n, kind |-> "slice"])]
        ELSE [mem |-> m,
              result |-> [NoResult EXCEPT !.tag = "InitError", !.header = c.header,
                                          !.data_ptr = slice_head, !.length = written_len,
                                          !.expected_length = c.n]]

\* copy_from_into whose copy stops one element short
copy_from_into_short(m, header, slice) ==
    [mem |-> [m EXCEPT !.length = Len(slice), !.header = header,
                       !.slots = [j \in DOMAIN m.slots |->
                                     IF j \in 1 .. (Len(slice) - 1) THEN Item(j, slice[j]) ELSE m.slots[j]]],
     handle |-> [addr |-> m.addr, len |-> Len(slice), kind |-> "slice"]]

\* HeaderSlice::copy_from_into
copy_from_into(m, header, slice) ==
    [mem |-> [m EXCEPT !.length = Len(slice), !.header = header,
                       !.slots = [j \in DOMAIN m.slots |->
                                     IF j \in 1 .. Len(slice) THEN Item(j, slice[j]) ELSE m.slots[j]]],
     handle |-> [addr |-> m.addr, len |-> Len(slice), kind |-> "slice"]]

\* HeaderStr::cast
HeaderStr_cast(handle) == [handle EXCEPT !.kind = "str"]

\* TryNewError::handle: the wrappers panic on every error
handle(tag) == "panicked"

(***************************************************************************)
(* Entry points.                                                           *)
(***************************************************************************)
MkCall(op, h, T, H, n, items, text, p) ==
    [op |-> op, header |-> h, T |-> T, H |-> H, n |-> n, items |-> items,
     text |-> text, panicAt |-> p]

\* HeaderSlice::layout_for, called on its own
Call_layout_for(T, H, n) ==
    /\ pc = "idle"
    /\ call' = MkCall("layout_for", 0, T, H, n, <<>>, <<>>, 0)
    /\ result' = [NoResult EXCEPT !.tag = "Layout", !.layout = layout_for(T, H, n)]
    /\ pc' = "returned"
    /\ UNCHANGED <<mem, writer, taken, dropCount, uninitDrops, allocCalls, heap, recovered>>

\* HeaderStr::layout_for, called on its own
Call_HeaderStr_layout_for(H, n) ==
    /\ pc = "idle"
    /\ call' = MkCall("HeaderStr_layout_for", 0, U8Ty, H, n, <<>>, <<>>, 0)
    /\ result' = [NoResult EXCEPT !.tag = "Layout", !.layout = HeaderStr_layout_for(H, n)]
    /\ pc' = "returned"
    /\ UNCHANGED <<mem, writer, taken, dropCount, uninitDrops, allocCalls, heap, recovered>>

\* HeaderSlice::new_into, up to its loop; the caller's block at a fits
\* layout_for(n)
Call_new_into(h, T, H, a, n, items, p) ==
    /\ pc = "idle"
    /\ call' = MkCall("new_into", h, T, H, n, items, <<>>, p)
    /\ mem' = FreshMem(a, n)
    /\ writer' = SliceWriter_new(slice_head)
    /\ pc' = "writing"
    /\ UNCHANGED <<taken, dropCount, uninitDrops, allocCalls, heap, result, recovered>>

\* HeaderSlice::clone_from_into, up to new_into's loop over slice.iter().cloned()
Call_clone_from_into(h, T, H, a, slice, p) ==
    /\ pc = "idle"
    /\ call' = MkCall("clone_from_into", h, T, H, Len(slice), slice, <<>>, p)
    /\ mem' = FreshMem(a, Len(slice))
    /\ writer' = SliceWriter_new(slice_head)
    /\ pc' = "writing"
    /\ UNCHANGED <<taken, dropCount, uninitDrops, allocCalls, heap, result, recovered>>

\* HeaderSlice::copy_from_into
Call_copy_from_into(h, T, H, a, slice) ==
    /\ pc = "idle"
    /\ call' = MkCall("copy_from_into", h, T, H, Len(slice), slice, <<>>, 0)
    /\ LET r == copy_from_into(FreshMem(a, Len(slice)), h, slice)
       IN  /\ mem' = r.mem
           /\ result' = OkResult(r.handle)
    /\ pc' = "returned"
    /\ UNCHANGED <<writer, taken, dropCount, uninitDrops, allocCalls, heap, recovered>>

\* HeaderStr::new_into
Call_HeaderStr_new_into(h, H, a, s) ==
    /\ pc = "idle"
    /\ call' = MkCall("HeaderStr_new_into", h, U8Ty, H, Len(as_bytes(s)), as_bytes(s), s, 0)
    /\ LET r == copy_from_into(FreshMem(a, Len(as_bytes(s))), h, as_bytes(s))
       IN  /\ mem' = r.mem
           /\ result' = OkResult(HeaderStr_cast(r.handle))
    /\ pc' = "returned"
    /\ UNCHANGED <<writer, taken, dropCount, uninitDrops, allocCalls, heap, recovered>>

\* what alloc leaves behind: the request counted, the block on the heap
Allocated(r) ==
    /\ allocCalls' = allocCalls + (IF r.asked THEN 1 ELSE 0)
    /\ heap' = IF r.tag = "Ok" THEN heap \cup {r.ptr} ELSE heap

\* an error of alloc leaves through the fallible entry point or its wrapper
AllocFailed(op, wrapper, r, h) ==
    /\ result' = with_header(r, h)
    /\ pc' = IF op = wrapper THEN handle(r.tag) ELSE "returned"
    /\ UNCHANGED <<mem, writer>>

\* HeaderSlice::try_new (op = "try_new") and HeaderSlice::new, which calls it,
\* up to new_into's loop; n is iter.len()
Call_try_new(op, h, T, H, n, items, p, a) ==
    /\ pc = "idle"
    /\ call' = MkCall(op, h, T, H, n, items, <<>>, p)
    /\ LET r == alloc(T, H, n, a)
       IN  /\ Allocated(r)
           /\ IF r.tag = "Ok"
              THEN /\ mem' = FreshMem(r.ptr, n)
                   /\ writer' = SliceWriter_new(slice_head)
                   /\ pc' = "writing"
                   /\ UNCHANGED result
              ELSE AllocFailed(op, "new", r, h)
    /\ UNCHANGED <<taken, dropCount, uninitDrops, recovered>>

\* HeaderSlice::try_clone_from (op = "try_clone_from") and HeaderSlice::clone_from,
\* up to new_into's loop; n is slice.len()
Call_try_clone_from(op, h, T, H, n, slice, p, a) ==
    /\ pc = "idle"
    /\ call' = MkCall(op, h, T, H, n, slice, <<>>, p)
    /\ LET r == alloc(T, H, n, a)
       IN  /\ Allocated(r)
           /\ IF r.tag = "Ok"
              THEN /\ n = Len(slice)
                   /\ mem' = FreshMem(r.ptr, n)
                   /\ writer' = SliceWriter_new(slice_head)
                   /\ pc' = "writing"
                   /\ UNCHANGED result
              ELSE AllocFailed(op, "clone_from", r, h)
    /\ UNCHANGED <<taken, dropCount, uninitDrops, recovered>>

\* HeaderSlice::try_copy_from (op = "try_copy_from") and HeaderSlice::copy_from
Call_try_copy_from(op, h, T, H, n, slice, a) ==
    /\ pc = "idle"
    /\ call' = MkCall(op, h, T, H, n, slice, <<>>, 0)
    /\ LET r == alloc(T, H, n, a)
       IN  /\ Allocated(r)
           /\ IF r.tag = "Ok"
              THEN /\ n = Len(slice)
                   /\ LET c == copy_from_into(FreshMem(r.ptr, n), h, slice)
                      IN  /\ mem' = c.mem
                          /\ result' = OkResult(c.handle)
                   /\ pc' = "returned"
                   /\ UNCHANGED writer
              ELSE AllocFailed(op, "copy_from", r, h)
    /\ UNCHANGED <<taken, dropCount, uninitDrops, recovered>>

(***************************************************************************)
(* new_into's loop: for value in iter.into_iter().take(length)             *)
(***************************************************************************)
\* take(length) asks the source again, and the source has an item left
MoreItems == taken < call.n /\ taken < Len(call.items)

\* the source yields its next item and the writer writes it
new_into_write ==
    /\ pc = "writing"
    /\ MoreItems
    /\ call.panicAt # taken + 1
    /\ LET r == SliceWriter_write(writer, mem.slots, Item(taken + 1, call.items[taken + 1]))
       IN  /\ writer' = r.writer
           /\ mem' = [mem EXCEPT !.slots = r.slots]
    /\ taken' = taken + 1
    /\ UNCHANGED <<pc, call, dropCount, uninitDrops, allocCalls, heap, result, recovered>>

\* the source (or T::clone) panics instead of yielding: new_into unwinds
new_into_unwind ==
    /\ pc = "writing"
    /\ MoreItems
    /\ call.panicAt = taken + 1
    /\ pc' = "unwinding"
    /\ UNCHANGED <<call, mem, writer, taken, dropCount, uninitDrops, allocCalls, heap, result, recovered>>

\* Drop for SliceWriter, run by the unwinding
SliceWriter_drop ==
    /\ pc = "unwinding"
    /\ writer.armed
    /\ \E g \in Garbage(mem.slots, writer.start, writer.len) :
          /\ dropCount' = slice_drop_in_place(dropCount, mem.slots, writer.start, writer.len, g)
          /\ pc' = IF Traps(mem.slots, writer.start, writer.len, g) THEN "aborted" ELSE "unwound"
    /\ uninitDrops' = uninitDrops + UninitIn(mem.slots, writer.start, writer.len)
    /\ writer' = NoWriter
    /\ UNCHANGED <<call, mem, taken, allocCalls, heap, result, recovered>>

\* new_into returns to its caller (lines 119-136)
new_into_return ==
    /\ pc = "writing"
    /\ ~MoreItems
    /\ call.op = "new_into"
    /\ LET r == new_into_result(writer, mem, call)
       IN  /\ mem' = r.mem
           /\ result' = r.result
    /\ writer' = NoWriter
    /\ pc' = "returned"
    /\ UNCHANGED <<call, taken, dropCount, uninitDrops, allocCalls, heap, recovered>>

\* new_into returns to try_new, which boxes the handle or destroys the partial
\* payload and reports NotEnoughItems; new panics on that
try_new_return ==
    /\ pc = "writing"
    /\ ~MoreItems
    /\ call.op \in {"try_new", "new"}
    /\ LET r == new_into_result(writer, mem, call)
           err == r.result
       IN  /\ mem' = r.mem
           /\ IF err.tag = "Ok"
              THEN /\ result' = r.result
                   /\ pc' = "returned"
                   /\ UNCHANGED <<dropCount, uninitDrops>>
              ELSE \E g \in Garbage(mem.slots, err.data_ptr, err.length) :
                      /\ dropCount' = slice_drop_in_place(dropCount, mem.slots, err.data_ptr, err.length, g)
                      /\ uninitDrops' = uninitDrops + UninitIn(mem.slots, err.data_ptr, err.length)
                      /\ result' = IF Traps(mem.slots, err.data_ptr, err.length, g) THEN result
                                    ELSE [NoResult EXCEPT !.tag = "NotEnoughItems", !.header = err.header]
                      /\ pc' = IF Traps(mem.slots, err.data_ptr, err.length, g) THEN "aborted"
                               ELSE IF call.op = "new" THEN handle("NotEnoughItems")
                               ELSE "returned"
    /\ writer' = NoWriter
    /\ UNCHANGED <<call, taken, allocCalls, heap, recovered>>

\* new_into returns to clone_from_into (and through it to try_clone_from and
\* clone_from); its Err arm is unreachable_unchecked
clone_from_into_return ==
    /\ pc = "writing"
    /\ ~MoreItems
    /\ call.op \in {"clone_from_into", "try_clone_from", "clone_from"}
    /\ LET r == new_into_result(writer, mem, call)
       IN  /\ mem' = r.mem
           /\ result' = r.result
           /\ pc' = IF r.result.tag = "Ok" THEN "returned" ELSE "unreachable"
    /\ writer' = NoWriter
    /\ UNCHANGED <<call, taken, dropCount, uninitDrops, allocCalls, heap, recovered>>

(***************************************************************************)
(* What the caller does with the outcome.                                  *)
(***************************************************************************)
\* HeaderSliceInitError::drop_in_place
drop_in_place ==
    /\ pc = "returned"
    /\ result.tag = "InitError"
    /\ \E g \in Garbage(mem.slots, result.data_ptr, result.length) :
          /\ dropCount' = slice_drop_in_place(dropCount, mem.slots, result.data_ptr, result.length, g)
          /\ pc' = IF Traps(mem.slots, result.data_ptr, result.length, g) THEN "aborted" ELSE "dropped"
          /\ result' = IF Traps(mem.slots, result.data_ptr, result.length, g) THEN result
                        ELSE [NoResult EXCEPT !.tag = "Header", !.header = result.header]
    /\ uninitDrops' = uninitDrops + UninitIn(mem.slots, result.data_ptr, result.length)
    /\ UNCHANGED <<call, mem, writer, taken, allocCalls, heap, recovered>>

\* HeaderSliceInitError::take_ownership
take_ownership ==
    /\ pc = "returned"
    /\ result.tag = "InitError"
    /\ result' = [NoResult EXCEPT !.tag = "Owned", !.header = result.header,
                                  !.data_ptr = result.data_ptr]
    /\ pc' = "owned"
    /\ UNCHANGED <<call, mem, writer, taken, dropCount, uninitDrops, allocCalls, heap, recovered>>

\* a read of the word after the length word
ReadLength_next_word(this) == IF mem.live /\ mem.addr = this THEN mem.header ELSE Uninit

\* the usize stored at a type-erased address
ReadLength(this) == IF mem.live /\ mem.addr = this THEN mem.length ELSE Uninit

\* Erasable::unerase for HeaderSlice; this is the handle's address, its length
\* metadata erased
unerase_HeaderSlice ==
    /\ pc = "returned"
    /\ result.tag = "Ok"
    /\ result.handle.kind = "slice"
    /\ LET this == result.handle.addr
           len == ReadLength(this)
       IN  recovered' = [addr |-> this, len |-> len, kind |-> "slice"]
    /\ pc' = "unerased"
    /\ UNCHANGED <<call, mem, writer, taken, dropCount, uninitDrops, allocCalls, heap, result>>

\* Erasable::unerase for HeaderStr
unerase_HeaderStr ==
    /\ pc = "returned"
    /\ result.tag = "Ok"
    /\ result.handle.kind = "str"
    /\ LET this == result.handle.addr
           len == ReadLength(this)
       IN  recovered' = [addr |-> this, len |-> len, kind |-> "str"]
    /\ pc' = "unerased"
    /\ UNCHANGED <<call, mem, writer, taken, dropCount, uninitDrops, allocCalls, heap, result>>

(***************************************************************************)
(* The specification.                                                      *)
(***************************************************************************)
\* element counts handed to layout_for
LayoutLens == (0 .. MaxLen) \cup HugeLens
\* where the source may panic: nowhere (0), or instead of its p-th item
PanicPoints(items) == 0 .. Len(items)
\* a slice of n elements of T exists
SliceFits(T, n) == T.size * n <= IsizeMax
\* what the allocator may answer
AllocAnswers == Addrs \cup {NULL}
\* a slice given with its elements, or one too long to write out, which is
\* passed only where the call fails before reading it
SliceArgs(T, H, a) ==
    {<<Len(sl), sl>> : sl \in Sources} \cup
    {<<n, <<>>>> : n \in {l \in HugeLens : SliceFits(T, l) /\ alloc(T, H, l, a).tag # "Ok"}}

\* the entry points are called with every argument of the bounded sets
Next ==
    \/ /\ pc = "idle"
       /\ \E T \in LayoutTypes, H \in LayoutTypes, n \in LayoutLens : Call_layout_for(T, H, n)
    \/ /\ pc = "idle"
       /\ \E H \in LayoutTypes, n \in LayoutLens : Call_HeaderStr_layout_for(H, n)
    \/ /\ pc = "idle"
       /\ \E h \in Headers, T \in ElemTypes, H \in HeaderTypes, a \in Addrs, n \in 0 .. MaxLen,
                 items \in Sources :
                 \E p \in PanicPoints(items) : Call_new_into(h, T, H, a, n, items, p)
    \/ /\ pc = "idle"
       /\ \E h \in Headers, T \in ElemTypes, H \in HeaderTypes, a \in Addrs, slice \in Sources :
                 \E p \in PanicPoints(slice) : Call_clone_from_into(h, T, H, a, slice, p)
    \/ /\ pc = "idle"
       /\ \E h \in Headers, T \in ElemTypes, H \in HeaderTypes, a \in Addrs, slice \in Sources :
                 Call_copy_from_into(h, T, H, a, slice)
    \/ /\ pc = "idle"
       /\ \E h \in Headers, H \in HeaderTypes, a \in Addrs, s \in Texts :
                 Call_HeaderStr_new_into(h, H, a, s)
    \/ /\ pc = "idle"
       /\ \E op \in {"try_new", "new"}, h \in Headers, T \in ElemTypes, H \in HeaderTypes,
                 n \in LayoutLens, items \in Sources, a \in AllocAnswers :
                 \E p \in PanicPoints(items) : Call_try_new(op, h, T, H, n, items, p, a)
    \/ /\ pc = "idle"
       /\ \E op \in {"try_clone_from", "clone_from"}, h \in Headers, T \in ElemTypes,
                 H \in HeaderTypes, a \in AllocAnswers :
                 \E arg \in SliceArgs(T, H, a) :
                    \E p \in PanicPoints(arg[2]) : Call_try_clone_from(op, h, T, H, arg[1], arg[2], p, a)
    \/ /\ pc = "idle"
       /\ \E op \in {"try_copy_from", "copy_from"}, h \in Headers, T \in ElemTypes,
                 H \in HeaderTypes, a \in AllocAnswers :
                 \E arg \in SliceArgs(T, H, a) : Call_try_copy_from(op, h, T, H, arg[1], arg[2], a)
    \/ new_into_write
    \/ new_into_unwind
    \/ SliceWriter_drop
    \/ new_into_return
    \/ try_new_return
    \/ clone_from_into_return
    \/ drop_in_place
    \/ take_ownership
    \/ unerase_HeaderSlice
    \/ unerase_HeaderStr

Spec == Init /\ [][Next]_vars

(***************************************************************************)
(* The claims.                                                             *)
(***************************************************************************)
TryOps == {"try_new", "try_clone_from", "try_copy_from"}
\* the block the handle is built in was obtained (or supplied by the caller)
HasMemory == mem.live
\* the call has ended: it returned, or the process trapped
Ended == pc \in {"returned", "aborted", "unreachable"}
\* the payload's values
Payload == [i \in DOMAIN mem.slots |-> mem.slots[i].val]
\* slot i holds the i-th item of the source, for every i up to m
HoldsInOrder(m) ==
    /\ Len(mem.slots) = m
    /\ \A i \in 1 .. m : mem.slots[i] = Item(i, call.items[i])
\* the source yields exactly call.n items
ExactSource == call.panicAt = 0 /\ Len(call.items) = call.n

\* C1: a source that yields exactly n items, for target length n, builds a handle
\* (new_into, or try_new once memory was obtained) of stored length n, with the
\* header passed in and slot i holding the i-th item yielded.
C1_ExactSourceBuilds ==
    (Ended /\ call.op \in {"new_into", "try_new"} /\ ExactSource /\ HasMemory)
        => /\ pc = "returned"
           /\ result.tag = "Ok"
           /\ result.handle.len = call.n
           /\ mem.length = call.n
           /\ mem.header = call.header
           /\ HoldsInOrder(call.n)

\* C2: a source that yields only k < n items makes try_new fail with
\* NotEnoughItems carrying the header passed in, each of the k items taken having
\* been destroyed exactly once and no slot without an item destroyed.
C2_ShortSourceDestroysPrefix ==
    (Ended /\ call.op = "try_new" /\ call.panicAt = 0 /\ Len(call.items) < call.n /\ HasMemory)
        => /\ pc = "returned"
           /\ result.tag = "NotEnoughItems"
           /\ result.header = call.header
           /\ \A i \in ItemIds : dropCount[i] = (IF i <= Len(call.items) THEN 1 ELSE 0)
           /\ uninitDrops = 0

\* the source unwound after `taken` items and the writer's destructor has run
Abandoned == pc \in {"unwound", "aborted"} /\ call.panicAt = taken + 1

\* C3: the writer abandoned by an unwinding after j items destroys each of those j
\* items exactly once and nothing else; once finish is reached it destroys nothing.
C3_GuardDestroysWrittenPrefix ==
    /\ Abandoned
          => /\ pc = "unwound"
             /\ \A i \in ItemIds : dropCount[i] = (IF i <= taken THEN 1 ELSE 0)
             /\ uninitDrops = 0
    /\ pc = "returned" /\ call.op = "new_into"
          => /\ \A i \in ItemIds : dropCount[i] = 0
             /\ uninitDrops = 0

\* C4: in every handle a construction path returns, the length word stored at the
\* start of the block equals the handle's number of payload elements, which is
\* the block's; new_into's failing path returns no handle.
C4_LengthWordIsLength ==
    /\ (pc = "returned" /\ result.tag = "Ok")
          => /\ mem.length = result.handle.len
             /\ result.handle.len = mem.cap
             /\ result.handle.addr = mem.addr
    /\ (pc = "returned" /\ result.tag = "InitError") => result.handle = NoHandle

C4_Witness ==
    /\ pc = "returned"
    /\ call.op = "try_new"
    /\ result.tag = "Ok"
    /\ result.handle.len = 2
    /\ mem.length = 2

\* C5: unerase applied to the erased address of a constructed handle gives the
\* same address and length (hence the same header and payload), and changes no
\* memory.
C5_UneraseRoundTrip ==
    [][(pc = "returned" /\ pc' = "unerased")
          => /\ recovered' = result.handle
             /\ recovered'.len = mem.cap
             /\ mem' = mem
             /\ result' = result]_vars

C5_Witness ==
    /\ pc = "unerased"
    /\ recovered.kind = "str"
    /\ recovered.len = 3
    /\ call.text = <<8364>>

\* C6: cloning from a slice of length m never reaches the partial-failure branch
\* and gives stored length m, the header passed in and slot i holding a clone of
\* source element i.
C6_CloneBuilds ==
    (Ended /\ call.op \in {"clone_from_into", "try_clone_from"} /\ call.panicAt = 0 /\ HasMemory)
        => /\ pc = "returned"
           /\ result.tag = "Ok"
           /\ mem.length = Len(call.items)
           /\ mem.header = call.header
           /\ HoldsInOrder(Len(call.items))

\* C7: copying from a slice of length m, and building a HeaderStr from a text of
\* m bytes, succeed with stored length m, the header passed in and the payload
\* equal to the source in order; for a text the payload is its UTF-8 encoding.
C7_CopyBuilds ==
    (pc = "returned" /\ call.op \in {"copy_from_into", "try_copy_from", "HeaderStr_new_into"}
                     /\ HasMemory)
        => /\ result.tag = "Ok"
           /\ mem.length = Len(call.items)
           /\ result.handle.len = Len(call.items)
           /\ mem.header = call.header
           /\ Payload = call.items
           /\ call.op = "HeaderStr_new_into"
                 => /\ result.handle.kind = "str"
                    /\ Payload = as_bytes(call.text)
                    /\ call.text = Hello
                          => mem.length = 6 /\ Payload = <<104, 195, 169, 108, 108, 111>>

C7_Witness ==
    /\ pc = "returned"
    /\ call.op = "HeaderStr_new_into"
    /\ call.text = Hello
    /\ mem.length = 6

\* C8: an error of try_new, try_clone_from or try_copy_from carries the header
\* passed in; it is LayoutTooLarge exactly when the layout fails, and then no
\* memory was requested; AllocError comes with the layout requested, no item
\* taken or written; NotEnoughItems only with memory obtained and a short source.
C8_ErrorsCarryHeader ==
    (pc = "returned" /\ call.op \in TryOps /\ result.tag # "Ok")
        => /\ result.header = call.header
           /\ result.tag \in {"LayoutTooLarge", "AllocError", "NotEnoughItems"}
           /\ result.tag = "LayoutTooLarge" <=> ~layout_for(call.T, call.H, call.n).ok
           /\ result.tag = "LayoutTooLarge" => allocCalls = 0 /\ heap = {}
           /\ result.tag = "AllocError"
                 => /\ result.layout = layout_for(call.T, call.H, call.n)
                    /\ allocCalls = 1
                    /\ heap = {}
                    /\ taken = 0
                    /\ mem = NoMem
           /\ result.tag = "NotEnoughItems"
                 => /\ call.op = "try_new"
                    /\ allocCalls = 1
                    /\ HasMemory
                    /\ taken = Len(call.items)
                    /\ taken < call.n

C8_Witness ==
    /\ pc = "returned"
    /\ call.op = "try_clone_from"
    /\ result.tag = "LayoutTooLarge"
    /\ result.header = 8

\* the layout the memory layout contract prescribes for n elements
PayloadOffset(T, H) == RoundUp(RoundUp(UsizeBytes, H.align) + H.size, T.align)
BlockAlign(T, H) == Max(UsizeBytes, Max(H.align, T.align))
BlockSize(T, H, n) == RoundUp(PayloadOffset(T, H) + n * T.size, BlockAlign(T, H))

\* C9: layout_for(n) returns the alignment that is the largest of those of the
\* length word, Header and T, and the size that is the payload offset plus
\* n * size(T), rounded up to that alignment; or, when that size exceeds the
\* representable bound, an error.
C9_LayoutFor ==
    (pc = "returned" /\ call.op \in {"layout_for", "HeaderStr_layout_for"})
        => /\ result.tag = "Layout"
           /\ call.op = "HeaderStr_layout_for" => call.T = U8Ty
           /\ IF BlockSize(call.T, call.H, call.n) <= IsizeMax
              THEN /\ result.layout.ok
                   /\ result.layout.align = BlockAlign(call.T, call.H)
                   /\ result.layout.size = BlockSize(call.T, call.H, call.n)
                   /\ result.layout.size % result.layout.align = 0
              ELSE ~result.layout.ok

C9_Witness ==
    /\ pc = "returned"
    /\ call.op = "layout_for"
    /\ call.T = [size |-> 4, align |-> 4]
    /\ call.H = [size |-> 1, align |-> 1]
    /\ call.n = 3
    /\ result.layout.ok
    /\ result.layout.size = 16

\* C10: when try_new, try_clone_from or try_copy_from returns, every block it
\* obtained from the allocator is owned by the returned handle or was given back.
C10_NoBlockOutstanding ==
    (pc = "returned" /\ call.op \in TryOps)
        => \/ heap = {}
           \/ result.tag = "Ok" /\ heap = {result.handle.addr}
====
